---- MODULE Spec2Model ----
(***************************************************************************)
(* Model of the media segmentation and reassembly pipeline of              *)
(* src/src/ffmpeg.rs (FFmpegClient): split_into_chunks, merge_chunks,      *)
(* split_at_region / extract_chunk, run by concurrent request handlers     *)
(* (src/src/main.rs) that share one chunk directory and one manifest file. *)
(*                                                                         *)
(* Text (paths, file names, manifest content, error detail) is a sequence  *)
(* of character codes; captured process output is a sequence of bytes.     *)
(* Times (f64 seconds in the code) are integers in tenths of a second.     *)
(***************************************************************************)
EXTENDS Integers, Sequences, FiniteSets, TLC

----------------------------------------------------------------------------
(* Bounds of the model *)

\* longest error-stream capture (bytes) the external tool emits
MaxErrLen == 2
\* longest chunk sequence handed to merge_chunks
MaxMergeLen == 2
\* most chunk files of a long segment run that the model follows through the scan
MaxNames == 3

----------------------------------------------------------------------------
(* Text *)

\* "mp3": the extension split_into_chunks keeps
Mp3 == <<109, 112, 51>>
\* "%03d": the placeholder of the output template
Placeholder == <<37, 48, 51, 100>>
\* "No chunks were created"
NoChunksMsg == <<78,111,32,99,104,117,110,107,115,32,119,101,114,101,32,99,114,101,97,116,101,100>>
\* the concat manifest: temp_dir()/concat.txt, one fixed path for every call
ConcatFile == <<99,111,110,99,97,116,46,116,120,116>>
\* the chunk directory of the handlers ("chunks")
ChunksDir == <<99,104,117,110,107,115>>

None == [some |-> FALSE, val |-> <<>>]
Some(v) == [some |-> TRUE, val |-> v]

\* decimal digits of n, most significant first
RECURSIVE Digits(_)
Digits(n) == IF n < 10 THEN <<48 + n>> ELSE Digits(n \div 10) \o <<48 + (n % 10)>>

\* the width of the "%03d" conversion in the chunk template
PadWidth == 3
\* the largest index the padded width holds: 10^3 - 1
PaddedMax == 10 ^ PadWidth - 1

\* a "%d" conversion: no padding
PadNone(n) == Digits(n)
\* printf "%03d": at least three digits, zero padded, never truncated
Pad3(n) == LET d == Digits(n)
           IN  IF Len(d) >= 3 THEN d ELSE [i \in 1..(3 - Len(d)) |-> 48] \o d

\* the i-th file the segment muxer writes for the template "chunk_%03d.mp3"
SegmentName(i) == <<99,104,117,110,107,95>> \o Pad3(i) \o <<46>> \o Mp3

\* the three role names of split_at_region
BeforeName == <<99,104,117,110,107,95,98,101,102,111,114,101,46,109,112,51>>
SelectedName == <<99,104,117,110,107,95,115,101,108,101,99,116,101,100,46,109,112,51>>
AfterName == <<99,104,117,110,107,95,97,102,116,101,114,46,109,112,51>>

\* PathBuf::join for a relative name
Join(dir, name) == dir \o <<47>> \o name

\* index of the last occurrence of code c in s, 0 if none
LastIndexOf(s, c) ==
    LET I == {i \in 1..Len(s) : s[i] = c}
    IN  IF I = {} THEN 0 ELSE CHOOSE i \in I : \A j \in I : j <= i

\* Path::file_name: the last component
FileName(path) == SubSeq(path, LastIndexOf(path, 47) + 1, Len(path))

\* Path::extension: the part of the file name after its last '.', none when the
\* name has no '.' or only a leading one
Extension(path) ==
    LET n == FileName(path)
        k == LastIndexOf(n, 46)
    IN  IF k <= 1 THEN None ELSE Some(SubSeq(n, k + 1, Len(n)))

\* str::contains
Contains(s, sub) ==
    \E i \in 1..(Len(s) - Len(sub) + 1) : SubSeq(s, i, i + Len(sub) - 1) = sub

\* byte-wise lexicographic order of two texts (strict)
RECURSIVE TextLess(_, _)
TextLess(a, b) ==
    IF b = <<>> THEN FALSE
    ELSE IF a = <<>> THEN TRUE
    ELSE IF a[1] # b[1] THEN a[1] < b[1]
    ELSE TextLess(Tail(a), Tail(b))

\* Path::components for the relative, normalised paths of the model
RECURSIVE Components(_)
Components(path) ==
    LET I == {i \in 1..Len(path) : path[i] = 47}
    IN  IF I = {} THEN <<path>>
        ELSE LET k == CHOOSE i \in I : \A j \in I : i <= j
             IN  <<SubSeq(path, 1, k - 1)>> \o Components(SubSeq(path, k + 1, Len(path)))

RECURSIVE ComponentsLess(_, _)
ComponentsLess(a, b) ==
    IF b = <<>> THEN FALSE
    ELSE IF a = <<>> THEN TRUE
    ELSE IF a[1] # b[1] THEN TextLess(a[1], b[1])
    ELSE ComponentsLess(Tail(a), Tail(b))

\* Ord for PathBuf: component by component
PathLess(a, b) == ComponentsLess(Components(a), Components(b))

\* the filter of split_into_chunks: extension "mp3", name without "%03d"
IsChunkFile(path) ==
    /\ Extension(path) = Some(Mp3)
    /\ ~Contains(FileName(path), Placeholder)

RECURSIVE InsertSorted(_, _)
InsertSorted(x, s) ==
    IF s = <<>> THEN <<x>>
    ELSE IF PathLess(x, s[1]) THEN <<x>> \o s
    ELSE <<s[1]>> \o InsertSorted(x, Tail(s))

RECURSIVE SortedFrom(_)
SortedFrom(s) == IF s = <<>> THEN <<>> ELSE InsertSorted(s[Len(s)], SortedFrom(SubSeq(s, 1, Len(s) - 1)))

\* chunks.sort() left out
SortPathsUnsorted(s) == s
\* chunks.sort(): ascending by PathBuf order
SortPaths(s) == SortedFrom(s)

\* every order in which read_dir may list the set S
RECURSIVE Listings(_)
Listings(S) ==
    IF S = {} THEN {<<>>}
    ELSE UNION {{<<x>> \o l : l \in Listings(S \ {x})} : x \in S}

----------------------------------------------------------------------------
(* Captured process output: String::from_utf8_lossy *)

\* bytes the external tool may put on its error stream: 'e', a continuation
\* byte, a two-byte lead, a byte that is never valid
ErrBytes == {101, 169, 195, 255}

RECURSIVE BytesUpTo(_)
BytesUpTo(n) == IF n = 0 THEN {<<>>}
                ELSE BytesUpTo(n - 1) \cup
                     {s \o <<b>> : s \in {t \in BytesUpTo(n - 1) : Len(t) = n - 1}, b \in ErrBytes}

IsCont(b) == b >= 128 /\ b <= 191
IsLead2(b) == b >= 194 /\ b <= 223

\* the captured bytes taken as text unchanged, one character per byte
RECURSIVE FromUtf8Raw(_)
FromUtf8Raw(bytes) == IF bytes = <<>> THEN <<>> ELSE <<bytes[1]>> \o FromUtf8Raw(Tail(bytes))

\* String::from_utf8_lossy(..).to_string(): one- and two-byte sequences are
\* decoded, every other byte becomes U+FFFD
RECURSIVE FromUtf8Lossy(_)
FromUtf8Lossy(bytes) ==
    IF bytes = <<>> THEN <<>>
    ELSE IF bytes[1] < 128 THEN <<bytes[1]>> \o FromUtf8Lossy(Tail(bytes))
    ELSE IF IsLead2(bytes[1]) /\ Len(bytes) >= 2 /\ IsCont(bytes[2])
         THEN <<(bytes[1] - 192) * 64 + (bytes[2] - 128)>> \o FromUtf8Lossy(Tail(Tail(bytes)))
    ELSE <<65533>> \o FromUtf8Lossy(Tail(bytes))

\* the UTF-8 bytes of a text (code points below U+0800, and U+FFFD)
RECURSIVE Utf8Bytes(_)
Utf8Bytes(text) ==
    IF text = <<>> THEN <<>>
    ELSE (IF text[1] < 128 THEN <<text[1]>>
          ELSE IF text[1] < 2048 THEN <<192 + (text[1] \div 64), 128 + (text[1] % 64)>>
          ELSE <<239, 191, 189>>) \o Utf8Bytes(Tail(text))

RECURSIVE IsUtf8(_)
IsUtf8(bytes) ==
    IF bytes = <<>> THEN TRUE
    ELSE IF bytes[1] < 128 THEN IsUtf8(Tail(bytes))
    ELSE IF IsLead2(bytes[1]) /\ Len(bytes) >= 2 /\ IsCont(bytes[2]) THEN IsUtf8(Tail(Tail(bytes)))
    ELSE FALSE

----------------------------------------------------------------------------
(* The concat manifest *)

\* str::replace("'", r"'\''")
RECURSIVE EscapeQuotes(_)
EscapeQuotes(s) ==
    IF s = <<>> THEN <<>>
    ELSE (IF s[1] = 39 THEN <<39, 92, 39, 39>> ELSE <<s[1]>>) \o EscapeQuotes(Tail(s))

\* format!("file '{}'\n", escaped)
FormatEntry(chunk) == <<102,105,108,101,32,39>> \o EscapeQuotes(chunk) \o <<39, 10>>

RECURSIVE ConcatContentOf(_)
ConcatContentOf(chunks) ==
    IF chunks = <<>> THEN <<>> ELSE FormatEntry(chunks[1]) \o ConcatContentOf(Tail(chunks))

RECURSIVE DropAdjacentDups(_)
DropAdjacentDups(s) ==
    IF Len(s) <= 1 THEN s
    ELSE IF s[1] = s[2] THEN DropAdjacentDups(Tail(s))
    ELSE <<s[1]>> \o DropAdjacentDups(Tail(s))

\* a manifest builder that sorts and de-duplicates the chunks first
ConcatContentSorted(chunks) == ConcatContentOf(DropAdjacentDups(SortedFrom(chunks)))
RECURSIVE Reversed(_)
Reversed(s) == IF s = <<>> THEN <<>> ELSE Append(Reversed(Tail(s)), s[1])

\* a manifest builder that walks the chunks from the last to the first
ConcatContentReversed(chunks) == ConcatContentOf(Reversed(chunks))
\* the content create_concat_file builds: one entry per chunk, in the given order
ConcatContent(chunks) == ConcatContentOf(chunks)

\* the lines of a text, each without its line feed
RECURSIVE Lines(_)
Lines(text) ==
    LET I == {i \in 1..Len(text) : text[i] = 10}
    IN  IF I = {} THEN (IF text = <<>> THEN <<>> ELSE <<text>>)
        ELSE LET k == CHOOSE i \in I : \A j \in I : i <= j
             IN  <<SubSeq(text, 1, k - 1)>> \o Lines(SubSeq(text, k + 1, Len(text)))

\* the concat demuxer's token reader: a backslash quotes the next character,
\* '...' quotes everything up to the next ', an unquoted space ends the token
RECURSIVE TokenOutside(_), TokenInside(_)
TokenOutside(s) ==
    IF s = <<>> \/ s[1] = 32 THEN <<>>
    ELSE IF s[1] = 92 /\ Len(s) >= 2 THEN <<s[2]>> \o TokenOutside(Tail(Tail(s)))
    ELSE IF s[1] = 39 THEN TokenInside(Tail(s))
    ELSE <<s[1]>> \o TokenOutside(Tail(s))
TokenInside(s) ==
    IF s = <<>> THEN <<>>
    ELSE IF s[1] = 39 THEN TokenOutside(Tail(s))
    ELSE <<s[1]>> \o TokenInside(Tail(s))

\* a line of the manifest is the directive "file " and one token
IsFileLine(line) == Len(line) > 5 /\ SubSeq(line, 1, 5) = <<102,105,108,101,32>>

\* the files a manifest lists, as the concat demuxer reads them
ManifestFiles(text) ==
    LET ls == Lines(text)
    IN  [ok    |-> \A i \in 1..Len(ls) : IsFileLine(ls[i]),
         files |-> [i \in 1..Len(ls) |-> TokenOutside(SubSeq(ls[i], 6, Len(ls[i])))]]

----------------------------------------------------------------------------
(* The program's state *)

\* the request handlers that run concurrently
Procs == {1, 2}

\* the media files of the requests and their durations, in tenths of a second
InputA == <<97,46,109,112,51>>
InputB == <<98,46,109,112,51>>
InputFiles == {InputA, InputB}
\* each request works on its own upload
InputOf(p) == IF p = 1 THEN InputA ELSE InputB
SourceDuration(f) == IF f = InputA THEN 50 ELSE 40

\* the seconds a caller passes to with_chunk_duration
ChunkSeconds == {0, 2}

\* start_time and end_time a caller passes to split_at_region (tenths of a second)
\* <<0, 50>>: no "before", the whole file selected; <<10, 10>>: an empty region;
\* <<10, 15>>: the handler's values; <<15, 10>>: the end before the start
RegionTimes == {<<0, 50>>, <<10, 10>>, <<10, 15>>, <<15, 10>>}

\* chunk paths a caller may hand to merge_chunks
QuotedPath == <<105,116,39,115,46,109,112,51>>
MergePaths == {Join(ChunksDir, SegmentName(0)), Join(ChunksDir, SegmentName(1)), QuotedPath}

RECURSIVE SeqsUpTo(_, _)
SeqsUpTo(S, n) == IF n = 0 THEN {<<>>}
                  ELSE SeqsUpTo(S, n - 1) \cup
                       {s \o <<x>> : s \in {t \in SeqsUpTo(S, n - 1) : Len(t) = n - 1}, x \in S}

\* files another program left in the chunk directory: "notes.txt" and a file
\* named by the unexpanded template, "chunk_%03d.mp3"
StrayNotes == <<110,111,116,101,115,46,116,120,116>>
StrayTemplate == <<99,104,117,110,107,95,37,48,51,100,46,109,112,51>>
Stray == [src |-> <<>>, from |-> 0, to |-> 0, by |-> 0]
StrayDir == [n \in {StrayNotes, StrayTemplate} |-> Stray]

\* what a file written by handler p holds: the window [from, to) of source src
Slice(src, from, to, p) == [src |-> src, from |-> from, to |-> to, by |-> p]

Min(a, b) == IF a < b THEN a ELSE b
Max(a, b) == IF a < b THEN b ELSE a

\* the segment muxer cuts every segment_time seconds: ceil(D / d) files
SegmentCount(src, seconds) == (SourceDuration(src) + seconds * 10 - 1) \div (seconds * 10)

\* file i of the segmentation of src: [i*d, (i+1)*d), the last one shorter
SegmentSlice(src, seconds, i, p) ==
    Slice(src, i * seconds * 10, Min((i + 1) * seconds * 10, SourceDuration(src)), p)

\* the two chunk files an earlier request left: a 4 s upload cut every 2 s
EarlierDir == [n \in {SegmentName(0), SegmentName(1)} |->
                 IF n = SegmentName(0) THEN SegmentSlice(InputB, 2, 0, 0)
                 ELSE SegmentSlice(InputB, 2, 1, 0)]

NoOutput == [status |-> 0 - 1, stderr |-> <<>>]
NoResult == [kind |-> "None", paths |-> <<>>, detail |-> <<>>]
Ok(paths) == [kind |-> "Ok", paths |-> paths, detail |-> <<>>]
Err(detail) == [kind |-> "Err", paths |-> <<>>, detail |-> detail]
Panic(msg) == [kind |-> "Panic", paths |-> <<>>, detail |-> msg]
NoArgs == [chunks |-> <<>>, output_path |-> <<>>, start_time |-> 0, end_time |-> 0]

InputNotSet == <<73,110,112,117,116,32,102,105,108,101,32,110,111,116,32,115,101,116>>
OutputDirNotSet == <<79,117,116,112,117,116,32,100,105,114,101,99,116,111,114,121,32,110,111,116,32,115,101,116>>
DurationNotSet == <<67,104,117,110,107,32,100,117,114,97,116,105,111,110,32,110,111,116,32,115,101,116>>
\* the detail of an io::Error the operating system raised
OsError == <<111,115>>

VARIABLES
    client,      \* per handler: the FFmpegClient fields input_file, output_dir, chunk_duration
    pc,          \* per handler: where its call stands
    op,          \* per handler: the operation called ("none" before the call)
    args,        \* per handler: the arguments of the call
    k,           \* per handler: segment files written so far / extraction under way
    got,         \* per handler: the paths extract_chunk has returned (chunk1, chunk2, chunk3)
    output,      \* per handler: the last std::process::Output captured
    result,      \* per handler: what the call returned
    dirExists,   \* the chunk directory exists
    dir,         \* the chunk directory: file name -> what the file holds
    manifest,    \* the content of the concat manifest file, if it exists
    concatIn,    \* per handler: the manifest as its concat run read it
    merged,      \* per handler: what its concat run wrote to output_path
    log,         \* per handler: the side effects of its call, in order
    seen,        \* per handler: the directory as its scan found it
    overlap,     \* per handler: another call was under way during its call
    after        \* per handler: the handlers whose call had returned when its call began

vars == <<client, pc, op, args, k, got, output, result, dirExists, dir, manifest,
          concatIn, merged, log, seen, overlap, after>>

\* concat.txt is never removed: what an earlier merge_chunks wrote is still there
StaleManifest == ConcatContent(<<Join(ChunksDir, SegmentName(1))>>)

NewClient == [input_file |-> None, output_dir |-> None, chunk_duration |-> None]

Init ==
    /\ client = [p \in Procs |-> NewClient]
    /\ pc = [p \in Procs |-> "idle"]
    /\ op = [p \in Procs |-> "none"]
    /\ args = [p \in Procs |-> NoArgs]
    /\ k = [p \in Procs |-> 0]
    /\ got = [p \in Procs |-> <<>>]
    /\ output = [p \in Procs |-> NoOutput]
    /\ result = [p \in Procs |-> NoResult]
    /\ \/ dirExists = FALSE /\ dir = <<>>
       \/ dirExists = TRUE /\ dir \in {StrayDir, EarlierDir}
    /\ manifest \in {None, Some(StaleManifest)}
    /\ concatIn = [p \in Procs |-> None]
    /\ merged = [p \in Procs |-> None]
    /\ log = [p \in Procs |-> <<>>]
    /\ seen = [p \in Procs |-> None]
    /\ overlap = [p \in Procs |-> FALSE]
    /\ after = [p \in Procs |-> {}]

Active(p) == pc[p] \notin {"idle", "done"}

\* a call of p begins: it overlaps every call under way
Begin(p) ==
    /\ overlap' = [q \in Procs |-> IF q = p THEN \E r \in Procs \ {p} : Active(r)
                                   ELSE overlap[q] \/ Active(q)]
    /\ after' = [after EXCEPT ![p] = {r \in Procs \ {p} : pc[r] = "done"}]

Finish(p, r) ==
    /\ pc' = [pc EXCEPT ![p] = "done"]
    /\ result' = [result EXCEPT ![p] = r]

Logged(p, what) == log' = [log EXCEPT ![p] = Append(@, what)]

----------------------------------------------------------------------------
(* The builder *)

WithInput(p, f) ==
    /\ pc[p] = "idle" /\ ~client[p].input_file.some
    /\ client' = [client EXCEPT ![p].input_file = Some(f)]
    /\ UNCHANGED <<pc, op, args, k, got, output, result, dirExists, dir, manifest,
                   concatIn, merged, log, seen, overlap, after>>

WithOutputDir(p, d) ==
    /\ pc[p] = "idle" /\ ~client[p].output_dir.some
    /\ client' = [client EXCEPT ![p].output_dir = Some(d)]
    /\ UNCHANGED <<pc, op, args, k, got, output, result, dirExists, dir, manifest,
                   concatIn, merged, log, seen, overlap, after>>

\* Duration::from_secs(seconds): any u64, zero included
WithChunkDuration(p, seconds) ==
    /\ pc[p] = "idle" /\ ~client[p].chunk_duration.some
    /\ client' = [client EXCEPT ![p].chunk_duration = Some(seconds)]
    /\ UNCHANGED <<pc, op, args, k, got, output, result, dirExists, dir, manifest,
                   concatIn, merged, log, seen, overlap, after>>

----------------------------------------------------------------------------
(* split_into_chunks *)

\* the three expect() of split_into_chunks, in order: the panic message of the
\* first unset field, none when all are set
SplitPrecondition(c) ==
    IF ~c.input_file.some THEN Some(InputNotSet)
    ELSE IF ~c.output_dir.some THEN Some(OutputDirNotSet)
    ELSE IF ~c.chunk_duration.some THEN Some(DurationNotSet)
    ELSE None

\* entry of split_into_chunks: the three expect()
SplitIntoChunks(p) ==
    /\ pc[p] = "idle"
    /\ op' = [op EXCEPT ![p] = "split"]
    /\ Begin(p)
    /\ IF SplitPrecondition(client[p]).some
       THEN Finish(p, Panic(SplitPrecondition(client[p]).val))
       ELSE /\ pc' = [pc EXCEPT ![p] = "split_mkdir"]
            /\ UNCHANGED result
    /\ UNCHANGED <<client, args, k, got, output, dirExists, dir, manifest,
                   concatIn, merged, log, seen>>

\* std::fs::create_dir_all(output_dir)?
SplitCreateDir(p) ==
    /\ pc[p] = "split_mkdir"
    /\ \/ /\ dirExists' = TRUE
          /\ Logged(p, "mkdir")
          /\ pc' = [pc EXCEPT ![p] = "split_invoke"]
          /\ UNCHANGED result
       \/ /\ ~dirExists
          /\ Finish(p, Err(OsError))
          /\ UNCHANGED <<dirExists, log>>
    /\ UNCHANGED <<client, op, args, k, got, output, dir, manifest,
                   concatIn, merged, seen, overlap, after>>

\* Command::new(..).args(..).output()?: the segment run starts, or cannot be spawned
SplitInvoke(p) ==
    /\ pc[p] = "split_invoke"
    /\ \/ /\ pc' = [pc EXCEPT ![p] = "split_running"]
          /\ Logged(p, "invoke")
          /\ k' = [k EXCEPT ![p] = 0]
          /\ UNCHANGED result
       \/ /\ Finish(p, Err(OsError))
          /\ UNCHANGED <<log, k>>
    /\ UNCHANGED <<client, op, args, got, output, dirExists, dir, manifest,
                   concatIn, merged, seen, overlap, after>>

\* the running segment muxer writes its next file
SegmentWrite(p) ==
    /\ pc[p] = "split_running"
    /\ client[p].chunk_duration.val > 0
    /\ k[p] < SegmentCount(client[p].input_file.val, client[p].chunk_duration.val)
    /\ dir' = (SegmentName(k[p]) :>
                 SegmentSlice(client[p].input_file.val, client[p].chunk_duration.val, k[p], p)) @@ dir
    /\ k' = [k EXCEPT ![p] = @ + 1]
    /\ UNCHANGED <<client, pc, op, args, got, output, result, dirExists, manifest,
                   concatIn, merged, log, seen, overlap, after>>

\* the error of a failed run, with the bytes taken as text unchanged
ExitErrorRaw(out) == Err(FromUtf8Raw(out.stderr))
\* Err(io::Error::new(Other, String::from_utf8_lossy(&output.stderr).to_string()))
ExitError(out) == Err(FromUtf8Lossy(out.stderr))

\* a split_into_chunks that runs the tool a second time when the first run failed
SegmentExitRetry(p, E) ==
    /\ pc[p] = "split_running"
    /\ \/ /\ client[p].chunk_duration.val > 0
          /\ k[p] \in {0, SegmentCount(client[p].input_file.val, client[p].chunk_duration.val)}
          /\ output' = [output EXCEPT ![p] = [status |-> 0, stderr |-> <<>>]]
          /\ pc' = [pc EXCEPT ![p] = "split_scan"]
          /\ UNCHANGED result
       \/ \E e \in E :
             /\ output' = [output EXCEPT ![p] = [status |-> 1, stderr |-> e]]
             /\ IF Len(log[p]) < 3
                THEN pc' = [pc EXCEPT ![p] = "split_invoke"] /\ UNCHANGED result
                ELSE Finish(p, ExitError([status |-> 1, stderr |-> e]))
    /\ UNCHANGED <<client, op, args, k, got, dirExists, dir, manifest,
                   concatIn, merged, log, seen, overlap, after>>

\* the segment run exits and split_into_chunks tests output.status.success().
\* It succeeds with every file written or with none produced; it fails at any
\* point, and always for a segment time of zero
SegmentExit(p, E) ==
    /\ pc[p] = "split_running"
    /\ \/ /\ client[p].chunk_duration.val > 0
          /\ k[p] \in {0, SegmentCount(client[p].input_file.val, client[p].chunk_duration.val)}
          /\ output' = [output EXCEPT ![p] = [status |-> 0, stderr |-> <<>>]]
          /\ pc' = [pc EXCEPT ![p] = "split_scan"]
          /\ UNCHANGED result
       \/ \E e \in E :
             /\ output' = [output EXCEPT ![p] = [status |-> 1, stderr |-> e]]
             /\ Finish(p, ExitError([status |-> 1, stderr |-> e]))
    /\ UNCHANGED <<client, op, args, k, got, dirExists, dir, manifest,
                   concatIn, merged, log, seen, overlap, after>>

\* a scan that keeps every file of the directory
KeptAll(d, names) == {Join(d, n) : n \in names}
\* the paths the filter of split_into_chunks keeps from a directory listing
Kept(d, names) == {path \in {Join(d, n) : n \in names} : IsChunkFile(path)}

\* an emptiness check that lets the empty vector through
ScanResultAny(chunks) == Ok(chunks)
\* if chunks.is_empty() { Err("No chunks were created") } else { Ok(chunks) }
ScanResult(chunks) == IF chunks = <<>> THEN Err(NoChunksMsg) ELSE Ok(chunks)

\* read_dir(output_dir)?, filter, sort, emptiness check. read_dir lists in any
\* order and the filter keeps that order
SplitScan(p) ==
    /\ pc[p] = "split_scan"
    /\ Logged(p, "scan")
    /\ seen' = [seen EXCEPT ![p] = Some(dir)]
    /\ \E listing \in Listings(Kept(client[p].output_dir.val, DOMAIN dir)) :
          Finish(p, ScanResult(SortPaths(listing)))
    /\ UNCHANGED <<client, op, args, k, got, output, dirExists, dir, manifest,
                   concatIn, merged, overlap, after>>

----------------------------------------------------------------------------
(* merge_chunks *)

\* where handler p asks for its merged file
OutputPath(p) == <<109>> \o Digits(p) \o <<46>> \o Mp3

\* entry of merge_chunks. The caller merges with a fresh client, as the merge
\* handler does (no field of the client is read by merge_chunks)
MergeChunks(p, chunks) ==
    /\ pc[p] = "idle"
    /\ client[p] = NewClient
    /\ op' = [op EXCEPT ![p] = "merge"]
    /\ Begin(p)
    /\ args' = [args EXCEPT ![p].chunks = chunks, ![p].output_path = OutputPath(p)]
    /\ pc' = [pc EXCEPT ![p] = "merge_manifest"]
    /\ UNCHANGED <<client, k, got, output, result, dirExists, dir, manifest,
                   concatIn, merged, log, seen>>

\* a create_concat_file that keeps a manifest it finds already there
CreateConcatFileKeep(p) ==
    /\ pc[p] = "merge_manifest"
    /\ \/ /\ manifest' = IF manifest.some THEN manifest ELSE Some(ConcatContent(args[p].chunks))
          /\ Logged(p, "manifest")
          /\ pc' = [pc EXCEPT ![p] = "merge_invoke"]
          /\ UNCHANGED result
       \/ /\ Finish(p, Err(OsError))
          /\ UNCHANGED <<manifest, log>>
    /\ UNCHANGED <<client, op, args, k, got, output, dirExists, dir,
                   concatIn, merged, seen, overlap, after>>

\* create_concat_file: std::fs::write(temp_dir().join("concat.txt"), content)?
CreateConcatFile(p) ==
    /\ pc[p] = "merge_manifest"
    /\ \/ /\ manifest' = Some(ConcatContent(args[p].chunks))
          /\ Logged(p, "manifest")
          /\ pc' = [pc EXCEPT ![p] = "merge_invoke"]
          /\ UNCHANGED result
       \/ /\ Finish(p, Err(OsError))
          /\ UNCHANGED <<manifest, log>>
    /\ UNCHANGED <<client, op, args, k, got, output, dirExists, dir,
                   concatIn, merged, seen, overlap, after>>

\* Command::new(..).args(["-f", "concat", .., "-i", concat_file, ..]).output()?:
\* the concat run starts and reads the manifest file as it then is
MergeInvoke(p) ==
    /\ pc[p] = "merge_invoke"
    /\ \/ /\ concatIn' = [concatIn EXCEPT ![p] =
                            IF manifest.some THEN Some(ManifestFiles(manifest.val)) ELSE None]
          /\ Logged(p, "invoke")
          /\ pc' = [pc EXCEPT ![p] = "merge_running"]
          /\ UNCHANGED result
       \/ /\ Finish(p, Err(OsError))
          /\ UNCHANGED <<concatIn, log>>
    /\ UNCHANGED <<client, op, args, k, got, output, dirExists, dir, manifest,
                   merged, seen, overlap, after>>

\* the file of the chunk directory a path names, if there is one
Present(path) ==
    \E n \in DOMAIN dir : path = Join(ChunksDir, n)

\* the concat run can succeed when its manifest was readable, lists at least one
\* file and every listed file exists
ConcatCanSucceed(p) ==
    /\ concatIn[p].some
    /\ concatIn[p].val.ok
    /\ concatIn[p].val.files # <<>>
    /\ \A i \in DOMAIN concatIn[p].val.files : Present(concatIn[p].val.files[i])

\* the concat run exits and merge_chunks tests output.status.success()
ConcatExit(p, E) ==
    /\ pc[p] = "merge_running"
    /\ \/ /\ ConcatCanSucceed(p)
          /\ merged' = [merged EXCEPT ![p] =
                          Some([i \in DOMAIN concatIn[p].val.files |->
                                  dir[FileName(concatIn[p].val.files[i])]])]
          /\ output' = [output EXCEPT ![p] = [status |-> 0, stderr |-> <<>>]]
          /\ Finish(p, Ok(<<args[p].output_path>>))
       \/ \E e \in E :
             /\ output' = [output EXCEPT ![p] = [status |-> 1, stderr |-> e]]
             /\ Finish(p, ExitError([status |-> 1, stderr |-> e]))
             /\ UNCHANGED merged
    /\ UNCHANGED <<client, op, args, k, got, dirExists, dir, manifest,
                   concatIn, log, seen, overlap, after>>

----------------------------------------------------------------------------
(* split_at_region and extract_chunk *)

\* the two expect() of split_at_region
RegionPrecondition(c) ==
    IF ~c.input_file.some THEN Some(InputNotSet)
    ELSE IF ~c.output_dir.some THEN Some(OutputDirNotSet)
    ELSE None

\* the three extract_chunk calls of split_at_region, in order; -1.0 is "to the
\* end of the file"
Extraction(i, start_time, end_time) ==
    IF i = 1 THEN [start |-> 0, end |-> start_time, name |-> BeforeName]
    ELSE IF i = 2 THEN [start |-> start_time, end |-> end_time, name |-> SelectedName]
    ELSE [start |-> end_time, end |-> 0 - 10, name |-> AfterName]

\* an extract_chunk that passes the end time as the duration limit
TrimArgsEndAsLimit(start, end) ==
    [ss |-> start, t |-> IF end >= 0 THEN Some(end) ELSE None]
\* the arguments extract_chunk gives the tool: -ss start, and -t (end - start)
\* unless end is negative
TrimArgs(start, end) ==
    [ss |-> start, t |-> IF end >= 0 THEN Some(end - start) ELSE None]

\* what the trim run copies from src: from -ss, for -t or to the end of the file
TrimSlice(src, a, p) ==
    LET from == Min(Max(a.ss, 0), SourceDuration(src))
        to   == IF a.t.some THEN Max(from, Min(a.ss + a.t.val, SourceDuration(src)))
                ELSE SourceDuration(src)
    IN  Slice(src, from, to, p)

\* entry of split_at_region: the two expect(). The caller sets no chunk
\* duration, as the region handler does (split_at_region does not read it)
SplitAtRegion(p, start_time, end_time) ==
    /\ pc[p] = "idle"
    /\ ~client[p].chunk_duration.some
    /\ op' = [op EXCEPT ![p] = "region"]
    /\ Begin(p)
    /\ IF RegionPrecondition(client[p]).some
       THEN /\ Finish(p, Panic(RegionPrecondition(client[p]).val))
            /\ UNCHANGED <<k, args>>
       ELSE /\ pc' = [pc EXCEPT ![p] = "region_invoke"]
            /\ args' = [args EXCEPT ![p].start_time = start_time, ![p].end_time = end_time]
            /\ k' = [k EXCEPT ![p] = 1]
            /\ UNCHANGED result
    /\ UNCHANGED <<client, got, output, dirExists, dir, manifest,
                   concatIn, merged, log, seen>>

\* extract_chunk: Command::new(..).args(..).output()?
ExtractInvoke(p) ==
    /\ pc[p] = "region_invoke"
    /\ \/ /\ pc' = [pc EXCEPT ![p] = "region_running"]
          /\ Logged(p, "invoke")
          /\ UNCHANGED result
       \/ /\ Finish(p, Err(OsError))
          /\ UNCHANGED log
    /\ UNCHANGED <<client, op, args, k, got, output, dirExists, dir, manifest,
                   concatIn, merged, seen, overlap, after>>

\* a region split that stops after the selected chunk
RegionCountTwo == 3 - 1
\* the number of extract_chunk calls of split_at_region
RegionCount == 3

\* a split_at_region that removes the chunks it has made when an extraction fails
ExtractExitRollback(p, E) ==
    /\ pc[p] = "region_running"
    /\ LET x == Extraction(k[p], args[p].start_time, args[p].end_time)
           path == Join(client[p].output_dir.val, x.name)
       IN  \/ /\ dirExists
              /\ dir' = (x.name :> TrimSlice(client[p].input_file.val, TrimArgs(x.start, x.end), p)) @@ dir
              /\ output' = [output EXCEPT ![p] = [status |-> 0, stderr |-> <<>>]]
              /\ got' = [got EXCEPT ![p] = Append(@, path)]
              /\ IF k[p] = RegionCount
                 THEN Finish(p, Ok(Append(got[p], path))) /\ UNCHANGED k
                 ELSE /\ k' = [k EXCEPT ![p] = @ + 1]
                      /\ pc' = [pc EXCEPT ![p] = "region_invoke"]
                      /\ UNCHANGED result
           \/ \E e \in E :
                 /\ output' = [output EXCEPT ![p] = [status |-> 1, stderr |-> e]]
                 /\ Finish(p, ExitError([status |-> 1, stderr |-> e]))
                 /\ dir' = [n \in DOMAIN dir \ {FileName(got[p][i]) : i \in DOMAIN got[p]} |-> dir[n]]
                 /\ UNCHANGED <<got, k>>
    /\ UNCHANGED <<client, op, args, dirExists, manifest,
                   concatIn, merged, log, seen, overlap, after>>

\* the trim run exits and extract_chunk tests status.success(): Ok(output) goes
\* back to split_at_region, which goes on to the next extraction or returns
ExtractExit(p, E) ==
    /\ pc[p] = "region_running"
    /\ LET x == Extraction(k[p], args[p].start_time, args[p].end_time)
           path == Join(client[p].output_dir.val, x.name)
       IN  \/ /\ dirExists
              /\ dir' = (x.name :> TrimSlice(client[p].input_file.val, TrimArgs(x.start, x.end), p)) @@ dir
              /\ output' = [output EXCEPT ![p] = [status |-> 0, stderr |-> <<>>]]
              /\ got' = [got EXCEPT ![p] = Append(@, path)]
              /\ IF k[p] = RegionCount
                 THEN Finish(p, Ok(Append(got[p], path))) /\ UNCHANGED k
                 ELSE /\ k' = [k EXCEPT ![p] = @ + 1]
                      /\ pc' = [pc EXCEPT ![p] = "region_invoke"]
                      /\ UNCHANGED result
           \/ \E e \in E :
                 /\ output' = [output EXCEPT ![p] = [status |-> 1, stderr |-> e]]
                 /\ Finish(p, ExitError([status |-> 1, stderr |-> e]))
                 /\ UNCHANGED <<dir, got, k>>
    /\ UNCHANGED <<client, op, args, dirExists, manifest,
                   concatIn, merged, log, seen, overlap, after>>

MergeRun(p, E) ==
    \/ CreateConcatFile(p)
    \/ MergeInvoke(p)
    \/ ConcatExit(p, E)

Region(p, E) ==
    \/ \E se \in RegionTimes : SplitAtRegion(p, se[1], se[2])
    \/ ExtractInvoke(p)
    \/ ExtractExit(p, E)

Builder(p) ==
    \/ WithInput(p, InputOf(p))
    \/ WithOutputDir(p, ChunksDir)
    \/ \E s \in ChunkSeconds : WithChunkDuration(p, s)

\* the operations of handler p; E: the error-stream captures a failing run of
\* the tool may leave, S: the chunk sequences a caller may hand to merge_chunks
Split(p, E) ==
    \/ SplitIntoChunks(p)
    \/ SplitCreateDir(p)
    \/ SplitInvoke(p)
    \/ SegmentWrite(p)
    \/ SegmentExit(p, E)
    \/ SplitScan(p)

----------------------------------------------------------------------------
(* Specifications *)

\* Spec: two handlers run concurrently. A failing run leaves "e" and one invalid
\* byte on its error stream; merge_chunks gets the first two numbered chunks in
\* either order, or the sequence a finished split returned
SpecErrs == {<<101, 255>>}
SplitResults == {result[q].paths : q \in {r \in Procs : op[r] = "split" /\ result[r].kind = "Ok"}}
SpecMerges ==
    {<<Join(ChunksDir, SegmentName(0)), Join(ChunksDir, SegmentName(1))>>,
     <<Join(ChunksDir, SegmentName(1)), Join(ChunksDir, SegmentName(0))>>} \cup SplitResults

Next ==
    \E p \in Procs :
        \/ Builder(p)
        \/ Split(p, SpecErrs)
        \/ \E chunks \in SpecMerges : MergeChunks(p, chunks)
        \/ MergeRun(p, SpecErrs)
        \/ Region(p, SpecErrs)

Spec == Init /\ [][Next]_vars

\* SpecSolo: handler 1 runs alone, on every error-stream capture of up to
\* MaxErrLen bytes and every chunk sequence of up to MaxMergeLen paths
NextSolo ==
    \/ Builder(1)
    \/ Split(1, BytesUpTo(MaxErrLen))
    \/ \E chunks \in SeqsUpTo(MergePaths, MaxMergeLen) : MergeChunks(1, chunks)
    \/ MergeRun(1, BytesUpTo(MaxErrLen))
    \/ Region(1, BytesUpTo(MaxErrLen))

SpecSolo == Init /\ [][NextSolo]_vars

\* the scan step can be taken exactly when the call stands before it: read_dir
\* lists the directory in some order, whatever it holds
ScanEnabled(p) == pc[p] = "split_scan"

\* The scan of split_into_chunks is the handler's own code: it runs once the
\* segment run has exited (weak fairness of SplitScan, with its enabling
\* condition written out). The external tool has no timeout and is not assumed
\* to exit.
ScanFairness == \A p \in Procs : []<>(~ScanEnabled(p)) \/ []<><<SplitScan(p)>>_vars

SpecLive == SpecSolo /\ ScanFairness

\* A long recording: its segment run wrote more files than the three digits of
\* the template count, chunk_000.mp3 .. chunk_1001.mp3. The scan orders files
\* pairwise, so the model follows at most MaxNames files of the run, taken from
\* the indices where the number of digits changes.
InputLong == <<108,111,110,103,46,109,112,51>>
LongCount == PaddedMax + 3
IndexSamples == {0, 9, 10, 99, 100, 101, PaddedMax, PaddedMax + 1, PaddedMax + 2}
LongSeconds == 2
LongSlice(i) == Slice(InputLong, i * LongSeconds * 10, (i + 1) * LongSeconds * 10, 1)
LongDir(S) == [n \in {SegmentName(i) : i \in S} |->
                 LongSlice(CHOOSE i \in S : SegmentName(i) = n)]

\* handler 1 stands before the scan of split_into_chunks: the directory was
\* created, the segment run has written its files and exited with status 0
InitPadding ==
    /\ client = [p \in Procs |->
                   IF p = 1 THEN [input_file |-> Some(InputLong),
                                  output_dir |-> Some(ChunksDir),
                                  chunk_duration |-> Some(LongSeconds)]
                   ELSE NewClient]
    /\ pc = [p \in Procs |-> IF p = 1 THEN "split_scan" ELSE "idle"]
    /\ op = [p \in Procs |-> IF p = 1 THEN "split" ELSE "none"]
    /\ args = [p \in Procs |-> NoArgs]
    /\ k = [p \in Procs |-> IF p = 1 THEN LongCount ELSE 0]
    /\ got = [p \in Procs |-> <<>>]
    /\ output = [p \in Procs |-> IF p = 1 THEN [status |-> 0, stderr |-> <<>>] ELSE NoOutput]
    /\ result = [p \in Procs |-> NoResult]
    /\ dirExists = TRUE
    /\ \E S \in {T \in SUBSET IndexSamples : T # {} /\ Cardinality(T) <= MaxNames} :
          dir = LongDir(S)
    /\ manifest = None
    /\ concatIn = [p \in Procs |-> None]
    /\ merged = [p \in Procs |-> None]
    /\ log = [p \in Procs |-> IF p = 1 THEN <<"mkdir", "invoke">> ELSE <<>>]
    /\ seen = [p \in Procs |-> None]
    /\ overlap = [p \in Procs |-> FALSE]
    /\ after = [p \in Procs |-> {}]

NextPadding == SplitScan(1)

SpecPadding == InitPadding /\ [][NextPadding]_vars


----------------------------------------------------------------------------
(* Properties *)

SplitDone(p) == op[p] = "split" /\ pc[p] = "done"
SplitOk(p) == SplitDone(p) /\ result[p].kind = "Ok"

\* the chunk files a split of handler p's input produces, in temporal order
OwnChunks(p) ==
    [i \in 1..SegmentCount(client[p].input_file.val, client[p].chunk_duration.val) |->
        Join(client[p].output_dir.val, SegmentName(i - 1))]

\* C1: when the segment run exited successfully and the scan found no chunk
\* file, split_into_chunks returned the error "No chunks were created"; and no
\* split_into_chunks ever returned Ok with an empty sequence.
C1_EmptyScanIsError ==
    \A p \in Procs :
        /\ (SplitDone(p) /\ seen[p].some /\ \A n \in DOMAIN seen[p].val : ~IsChunkFile(n))
              => (output[p].status = 0 /\ result[p] = Err(NoChunksMsg))
        /\ SplitOk(p) => result[p].paths # <<>>

\* a successful segment run after which the directory held no chunk file
C1_Witness ==
    \E p \in Procs :
        /\ SplitDone(p) /\ seen[p].some /\ output[p].status = 0
        /\ \A n \in DOMAIN seen[p].val : ~IsChunkFile(n)
        /\ result[p] = Err(NoChunksMsg)

\* C2: a call whose tool run ended with a non-zero exit status returned an
\* error, never Ok, whose detail is the captured error stream decoded as text
\* and nothing else: byte for byte the capture when that is valid UTF-8, and
\* U+FFFD in place of each invalid byte otherwise.
C2_ExitErrorIsStderr ==
    \A p \in Procs :
        (pc[p] = "done" /\ output[p].status > 0) =>
            /\ result[p].kind = "Err"
            /\ result[p].paths = <<>>
            /\ result[p].detail = FromUtf8Lossy(output[p].stderr)
            /\ IsUtf8(output[p].stderr) => Utf8Bytes(result[p].detail) = output[p].stderr
            /\ ~IsUtf8(output[p].stderr) => \E i \in DOMAIN result[p].detail : result[p].detail[i] = 65533

\* the second extraction of a region split failed with the two bytes of "é"
C2_Witness ==
    \E p \in Procs :
        /\ op[p] = "region" /\ pc[p] = "done" /\ k[p] = 2
        /\ output[p] = [status |-> 1, stderr |-> <<195, 169>>]
        /\ result[p] = Err(<<233>>)

\* the segment run of handler p wrote every file of its segmentation
WroteAll(p) == k[p] = SegmentCount(client[p].input_file.val, client[p].chunk_duration.val)

\* C3: a successful split_into_chunks that ran with no other call under way,
\* and whose segment run wrote all its files, returned exactly the chunk files
\* of its own run, whatever the directory held before: ceil(D / d) paths, the
\* i-th holding [i*d, (i+1)*d) of its input.
C3_SplitReturnsOwnChunks ==
    \A p \in Procs :
        (SplitOk(p) /\ ~overlap[p] /\ WroteAll(p)) =>
            /\ result[p].paths = OwnChunks(p)
            /\ \A i \in DOMAIN result[p].paths :
                  /\ FileName(result[p].paths[i]) \in DOMAIN seen[p].val
                  /\ seen[p].val[FileName(result[p].paths[i])] =
                        SegmentSlice(client[p].input_file.val, client[p].chunk_duration.val, i - 1, p)

\* a file name that ends in ".mp3" after at least one other character
EndsInMp3(n) == Len(n) > 4 /\ SubSeq(n, Len(n) - 3, Len(n)) = <<46, 109, 112, 51>>
\* a file name in which the four characters "%03d" occur
HasPlaceholder(n) == \E i \in 1..Len(n) : i + 3 <= Len(n) /\ <<n[i], n[i+1], n[i+2], n[i+3]>> = <<37, 48, 51, 100>>

BadSplitConfig(c) ==
    \/ ~c.input_file.some
    \/ ~c.output_dir.some
    \/ ~c.chunk_duration.some
    \/ c.chunk_duration.val <= 0

\* C5: split_into_chunks called with the input file, the output directory or
\* the chunk duration unset, or with a chunk duration of zero, failed with a
\* configuration error before it created a directory or invoked the tool.
C5_PreconditionsRejected ==
    \A p \in Procs :
        (op[p] = "split" /\ BadSplitConfig(client[p])) =>
            /\ log[p] = <<>>
            /\ pc[p] = "done" => result[p].kind = "Panic"

\* C6: merge_chunks called with an empty chunk sequence failed up front: it
\* wrote no manifest and did not invoke the concat run.
C6_EmptyMergeRejected ==
    \A p \in Procs :
        (op[p] = "merge" /\ args[p].chunks = <<>>) =>
            /\ log[p] = <<>>
            /\ pc[p] = "done" => result[p].kind = "Err"

\* C7: once merge_chunks has written the manifest for c[1..n], the manifest
\* lists exactly n files and the i-th is c[i]: the caller's order, duplicates
\* kept, nothing added, nothing left of what the file held before. (Handler 1
\* runs alone, so nothing else writes the file afterwards.)
C7_ManifestIsChunksInOrder ==
    \A p \in Procs :
        (op[p] = "merge" /\ log[p] # <<>>) =>
            /\ manifest.some
            /\ Len(Lines(manifest.val)) = Len(args[p].chunks)
            /\ ManifestFiles(manifest.val).ok
            /\ \A i \in DOMAIN args[p].chunks : ManifestFiles(manifest.val).files[i] = args[p].chunks[i]

\* a manifest written for a path with a quote in it followed by a path that
\* sorts before it
C7_Witness ==
    \E p \in Procs :
        /\ op[p] = "merge" /\ log[p] # <<>>
        /\ args[p].chunks = <<QuotedPath, Join(ChunksDir, SegmentName(0))>>

\* the manifest lists exactly the chunk sequence of handler q
ReadManifestOf(p, q) ==
    /\ concatIn[p].val.ok
    /\ Len(concatIn[p].val.files) = Len(args[q].chunks)
    /\ \A i \in DOMAIN args[q].chunks : concatIn[p].val.files[i] = args[q].chunks[i]

\* C8: a concat run of a merge_chunks that ran with no other call under way
\* read the manifest of its own chunk sequence; and a concat run that read
\* anything else read the manifest another merge_chunks had written meanwhile.
C8_IsolatedMergeReadsOwn ==
    \A p \in Procs :
        (op[p] = "merge" /\ concatIn[p].some) =>
            /\ ~overlap[p] => ReadManifestOf(p, p)
            /\ ReadManifestOf(p, p) \/
                  \E q \in Procs \ {p} :
                      op[q] = "merge" /\ log[q] # <<>> /\ overlap[p] /\ ReadManifestOf(p, q)

\* two concurrent merges of different sequences: the concat run of one read the
\* manifest of the other and built its output from the other's sequence
C8_Witness ==
    \E p \in Procs : \E q \in Procs \ {p} :
        /\ op[p] = "merge" /\ op[q] = "merge"
        /\ args[p].chunks # args[q].chunks
        /\ concatIn[p].some /\ ReadManifestOf(p, q)
        /\ result[p] = Ok(<<args[p].output_path>>)
        /\ merged[p].some
        /\ Len(merged[p].val) = Len(args[q].chunks)
        /\ \A i \in DOMAIN args[q].chunks : merged[p].val[i] = dir[FileName(args[q].chunks[i])]

\* every chunk file the scan of handler p found was written by its own run
ScanFoundOnlyOwn(p) ==
    \A n \in DOMAIN seen[p].val : IsChunkFile(n) => seen[p].val[n].by = p

\* C9: a successful split_into_chunks whose scan found only chunk files of its
\* own run returned them in the ascending temporal order of its input; any
\* other returned sequence holds a file some other run wrote.
C9_OwnFilesInTemporalOrder ==
    \A p \in Procs :
        (SplitOk(p) /\ ScanFoundOnlyOwn(p)) =>
            /\ result[p].paths = OwnChunks(p)
            /\ \A i \in DOMAIN result[p].paths :
                  seen[p].val[FileName(result[p].paths[i])] =
                      SegmentSlice(client[p].input_file.val, client[p].chunk_duration.val, i - 1, p)

\* two concurrent splits of different inputs into the one directory: the
\* sequence one of them returned is longer than its own segmentation and holds
\* a chunk file the other wrote
C9_Witness ==
    \E p \in Procs : \E q \in Procs \ {p} :
        /\ SplitOk(p) /\ op[q] = "split" /\ overlap[p]
        /\ client[p].input_file # client[q].input_file
        /\ Len(result[p].paths) > Len(OwnChunks(p))
        /\ \E i \in DOMAIN result[p].paths : seen[p].val[FileName(result[p].paths[i])].by = q
        /\ \E i \in DOMAIN result[p].paths : seen[p].val[FileName(result[p].paths[i])].by = p

\* C10: every successful split_at_region returned exactly three paths, in the
\* order chunk_before, chunk_selected, chunk_after of the output directory.
C10_RegionReturnsThree ==
    \A p \in Procs :
        (op[p] = "region" /\ result[p].kind = "Ok") =>
            /\ pc[p] = "done"
            /\ Len(result[p].paths) = 3
            /\ result[p].paths = <<Join(client[p].output_dir.val, BeforeName),
                                   Join(client[p].output_dir.val, SelectedName),
                                   Join(client[p].output_dir.val, AfterName)>>

\* a successful region split of an empty region (start = end)
C10_Witness ==
    \E p \in Procs :
        /\ op[p] = "region" /\ result[p].kind = "Ok"
        /\ args[p].start_time = args[p].end_time

----------------------------------------------------------------------------
(* Split, then merge *)

\* every file the scan of p's split found was written by p's own segment run:
\* the directory was empty before the run and nothing else wrote into it
SeenOnlyOwn(p) ==
    seen[p].some /\ \A n \in DOMAIN seen[p].val : seen[p].val[n].by = p

\* handler q merged, after p's split had returned, the sequence that split returned
MergedSplitOf(q, p) ==
    /\ SplitOk(p) /\ ~overlap[p] /\ SeenOnlyOwn(p)
    /\ op[q] = "merge" /\ p \in after[q]
    /\ args[q].chunks = result[p].paths
    /\ pc[q] = "done" /\ result[q].kind = "Ok"

RECURSIVE TotalLength(_)
TotalLength(slices) ==
    IF slices = <<>> THEN 0
    ELSE (slices[1].to - slices[1].from) + TotalLength(Tail(slices))

\* C11: when merge_chunks succeeds on the sequence returned by a successful
\* split_into_chunks that ran alone on an empty output directory, the merged
\* file is the concatenation of the split's chunks in ascending temporal order:
\* piece i is [i*d, (i+1)*d) of the input, the pieces follow one another from 0
\* to the input's duration, and their lengths sum to the input's duration.
C11_MergeOfSplitIsSource ==
    \A p \in Procs : \A q \in Procs \ {p} :
        MergedSplitOf(q, p) =>
            LET src == client[p].input_file.val
                d   == client[p].chunk_duration.val
                m   == merged[q].val
            IN  /\ merged[q].some
                /\ Len(m) = SegmentCount(src, d)
                /\ \A i \in DOMAIN m : m[i] = SegmentSlice(src, d, i - 1, p)
                /\ m[1].from = 0 /\ m[Len(m)].to = SourceDuration(src)
                /\ \A i \in 1..(Len(m) - 1) : m[i].to = m[i + 1].from
                /\ TotalLength(m) = SourceDuration(src)

\* the merge of a split whose input is not a whole number of chunks long: the
\* last piece is shorter than the chunk duration
C11_Witness ==
    \E p \in Procs : \E q \in Procs \ {p} :
        /\ MergedSplitOf(q, p)
        /\ SourceDuration(client[p].input_file.val) % (client[p].chunk_duration.val * 10) # 0
        /\ Len(merged[q].val) > 1

\* the merge of a split whose input is a whole number of chunks long
C11_WitnessExact ==
    \E p \in Procs : \E q \in Procs \ {p} :
        /\ MergedSplitOf(q, p)
        /\ SourceDuration(client[p].input_file.val) % (client[p].chunk_duration.val * 10) = 0
        /\ Len(merged[q].val) > 1

----------------------------------------------------------------------------
(* Name order and index order *)

\* the indices of the chunk files among names
IndicesOf(names) == {i \in IndexSamples : SegmentName(i) \in names}

\* the chunk paths of the indices S in ascending index order
RECURSIVE NumericOrder(_)
NumericOrder(S) ==
    IF S = {} THEN <<>>
    ELSE LET lo == CHOOSE i \in S : \A j \in S : i <= j
         IN  <<Join(ChunksDir, SegmentName(lo))>> \o NumericOrder(S \ {lo})

\* C12: for the template chunk_%03d.mp3 the ascending sort of split_into_chunks
\* is ascending index order as long as no index exceeds 999: each name of index
\* i < 999 sorts before the name of index i + 1, and a scan that found only
\* indices up to 999 returned them in index order. With an index of 1000 or
\* more present, next to a three-digit index greater than its first three
\* digits (every full run of that length has one), the returned order is not
\* index order.
C12_PaddedSortIsNumeric ==
    /\ \A i \in 0..(PaddedMax - 1) :
          PathLess(Join(ChunksDir, SegmentName(i)), Join(ChunksDir, SegmentName(i + 1)))
    /\ \A p \in Procs :
          (SplitOk(p) /\ client[p].input_file.val = InputLong) =>
              LET S == IndicesOf(DOMAIN seen[p].val)
              IN  /\ Len(result[p].paths) = Cardinality(S)
                  /\ (\A i \in S : i <= PaddedMax) => result[p].paths = NumericOrder(S)
                  /\ (\E i \in S : \E j \in S :
                          i > PaddedMax /\ j <= PaddedMax /\ j * 10 > i)
                        => result[p].paths # NumericOrder(S)

\* the scan of chunk_999.mp3 and chunk_1000.mp3 returned chunk_1000.mp3 first
C12_Witness ==
    /\ SplitOk(1)
    /\ IndicesOf(DOMAIN seen[1].val) = {PaddedMax, PaddedMax + 1}
    /\ result[1].paths = <<Join(ChunksDir, SegmentName(PaddedMax + 1)),
                           Join(ChunksDir, SegmentName(PaddedMax))>>

\* the scan of chunk_009.mp3, chunk_010.mp3 and chunk_999.mp3 returned them in
\* index order
C12_WitnessPadded ==
    /\ SplitOk(1)
    /\ IndicesOf(DOMAIN seen[1].val) = {9, 10, PaddedMax}
    /\ result[1].paths = NumericOrder({9, 10, PaddedMax})

----------------------------------------------------------------------------
(* The three extractions of split_at_region *)

\* the paths of the three roles, in the order split_at_region extracts them
RolePaths(p) == [i \in 1..RegionCount |->
                   Join(client[p].output_dir.val, Extraction(i, 0, 0).name)]

\* handler p's split_at_region got past its preconditions
RegionBegun(p) == op[p] = "region" /\ result[p].kind # "Panic"

\* the file extraction i of p's region split writes is in the directory, and
\* holds what that extraction wrote unless another handler has since written it
RoleFileInPlace(p, i) ==
    LET x == Extraction(i, args[p].start_time, args[p].end_time)
    IN  /\ x.name \in DOMAIN dir
        /\ dir[x.name].by = p =>
              dir[x.name] = TrimSlice(client[p].input_file.val, TrimArgs(x.start, x.end), p)

\* C13: split_at_region runs its extractions in the order before, selected,
\* after. It returned Ok only after all three succeeded. When it returned an
\* error at extraction k, extractions 1..k-1 had succeeded and their files are
\* in the directory, the tool was invoked k times (k-1 when the k-th could not
\* be started) and never for a later extraction, and the error is the one of
\* extraction k: the decoded error stream of its run, or the spawn error.
C13_RegionStopsAtFirstFailure ==
    \A p \in Procs :
        RegionBegun(p) =>
            /\ got[p] = SubSeq(RolePaths(p), 1, Len(got[p]))
            /\ \A i \in DOMAIN log[p] : log[p][i] = "invoke"
            /\ pc[p] = "region_invoke" => (Len(got[p]) = k[p] - 1 /\ Len(log[p]) = k[p] - 1)
            /\ pc[p] = "region_running" => (Len(got[p]) = k[p] - 1 /\ Len(log[p]) = k[p])
            /\ (pc[p] = "done" /\ result[p].kind = "Ok") =>
                  /\ Len(got[p]) = RegionCount /\ Len(log[p]) = RegionCount
                  /\ result[p].paths = got[p]
            /\ (pc[p] = "done" /\ result[p].kind = "Err") =>
                  /\ k[p] \in 1..RegionCount
                  /\ Len(got[p]) = k[p] - 1
                  /\ Len(log[p]) \in {k[p] - 1, k[p]}
                  /\ Len(log[p]) = k[p] => (output[p].status = 1 /\ result[p] = ExitError(output[p]))
                  /\ Len(log[p]) = k[p] - 1 => result[p] = Err(OsError)
                  /\ \A i \in 1..(k[p] - 1) : RoleFileInPlace(p, i)

\* a region split whose third extraction exited with an error: the tool was
\* invoked three times, and chunk_before.mp3 and chunk_selected.mp3 are in the
\* directory as the first two extractions wrote them
C13_Witness ==
    \E p \in Procs :
        /\ RegionBegun(p) /\ pc[p] = "done" /\ result[p].kind = "Err"
        /\ k[p] = RegionCount /\ Len(log[p]) = RegionCount /\ output[p].status = 1
        /\ \A i \in 1..(RegionCount - 1) :
              /\ RoleFileInPlace(p, i)
              /\ dir[Extraction(i, 0, 0).name].by = p

----------------------------------------------------------------------------
(* The windows of split_at_region *)

\* handler p's split_at_region(s, e) returned Ok, with 0 <= s <= e <= D
RegionOkWithin(p) ==
    /\ op[p] = "region" /\ pc[p] = "done" /\ result[p].kind = "Ok"
    /\ 0 <= args[p].start_time
    /\ args[p].start_time <= args[p].end_time
    /\ args[p].end_time <= SourceDuration(client[p].input_file.val)

LengthOf(slice) == slice.to - slice.from

\* C14: for 0 <= s <= e <= D a successful split_at_region(s, e), run with no
\* other request, gave the tool -ss 0 -t s for before, -ss s -t (e - s) for
\* selected and -ss e with no -t for after; the three files hold [0, s), [s, e)
\* and [e, D) of the input and their lengths sum to D. For D = 5.0, s = 1.0,
\* e = 1.5 the lengths are 1.0, 0.5 and 3.5.
C14_RegionWindows ==
    \A p \in Procs :
        RegionOkWithin(p) =>
            LET src == client[p].input_file.val
                D   == SourceDuration(src)
                s   == args[p].start_time
                e   == args[p].end_time
                X(i) == Extraction(i, s, e)
            IN  /\ TrimArgs(X(1).start, X(1).end) = [ss |-> 0, t |-> Some(s)]
                /\ TrimArgs(X(2).start, X(2).end) = [ss |-> s, t |-> Some(e - s)]
                /\ TrimArgs(X(3).start, X(3).end) = [ss |-> e, t |-> None]
                /\ dir[BeforeName] = Slice(src, 0, s, p)
                /\ dir[SelectedName] = Slice(src, s, e, p)
                /\ dir[AfterName] = Slice(src, e, D, p)
                /\ LengthOf(dir[BeforeName]) + LengthOf(dir[SelectedName])
                      + LengthOf(dir[AfterName]) = D
                /\ (D = 50 /\ s = 10 /\ e = 15) =>
                      /\ LengthOf(dir[BeforeName]) = 10
                      /\ LengthOf(dir[SelectedName]) = 5
                      /\ LengthOf(dir[AfterName]) = 35

\* split_at_region(1.0, 1.5) of the 5 s input returned Ok
C14_Witness ==
    \E p \in Procs :
        /\ RegionOkWithin(p)
        /\ SourceDuration(client[p].input_file.val) = 50
        /\ args[p].start_time = 10 /\ args[p].end_time = 15
        /\ LengthOf(dir[AfterName]) = 35

----------------------------------------------------------------------------
(* The life of one call *)

IsPrefix(s, t) == Len(s) <= Len(t) /\ s = SubSeq(t, 1, Len(s))

Invocations(p) == Cardinality({i \in DOMAIN log[p] : log[p][i] = "invoke"})

\* the call of p has returned Ok or Err
Returned(p) == pc[p] = "done" /\ result[p].kind \in {"Ok", "Err"}

\* split_into_chunks: create the directory, invoke once, scan only after a
\* successful exit
SplitLifecycle(p) ==
    /\ IsPrefix(log[p], <<"mkdir", "invoke", "scan">>)
    /\ pc[p] \in {"split_mkdir", "split_invoke", "split_running", "split_scan", "done"}
    /\ pc[p] = "split_mkdir" => log[p] = <<>>
    /\ pc[p] = "split_invoke" => log[p] = <<"mkdir">>
    /\ pc[p] = "split_running" => (log[p] = <<"mkdir", "invoke">> /\ output[p] = NoOutput)
    /\ pc[p] = "split_scan" => (log[p] = <<"mkdir", "invoke">> /\ output[p].status = 0)
    /\ pc[p] = "done" =>
          /\ Returned(p)
          /\ Len(log[p]) < 2 => (result[p] = Err(OsError) /\ output[p] = NoOutput)
          /\ Len(log[p]) = 2 => (output[p].status = 1 /\ result[p] = ExitError(output[p]))
          /\ Len(log[p]) = 3 => output[p].status = 0

\* merge_chunks: write the manifest, then invoke once
MergeLifecycle(p) ==
    /\ IsPrefix(log[p], <<"manifest", "invoke">>)
    /\ pc[p] \in {"merge_manifest", "merge_invoke", "merge_running", "done"}
    /\ pc[p] = "merge_manifest" => log[p] = <<>>
    /\ pc[p] = "merge_invoke" => log[p] = <<"manifest">>
    /\ pc[p] = "merge_running" => (log[p] = <<"manifest", "invoke">> /\ output[p] = NoOutput)
    /\ ~concatIn[p].some => (Invocations(p) = 0 \/ ~manifest.some)
    /\ pc[p] = "done" =>
          /\ Returned(p)
          /\ Len(log[p]) < 2 => (result[p] = Err(OsError) /\ output[p] = NoOutput
                                    /\ ~concatIn[p].some /\ ~merged[p].some)
          /\ Len(log[p]) = 2 =>
                \/ output[p].status = 1 /\ result[p] = ExitError(output[p])
                \/ output[p].status = 0 /\ result[p] = Ok(<<args[p].output_path>>)

\* extract_chunk, as split_at_region calls it: extraction k is invoked once,
\* and a failed one is the last
ExtractLifecycle(p) ==
    /\ Invocations(p) = Len(log[p])
    /\ Invocations(p) <= k[p]
    /\ pc[p] \in {"region_invoke", "region_running", "done"}
    /\ pc[p] = "region_invoke" => Invocations(p) = k[p] - 1
    /\ pc[p] = "region_running" => Invocations(p) = k[p]
    /\ pc[p] = "done" => Returned(p)

C15_Lifecycle ==
    \A p \in Procs :
        /\ pc[p] = "idle" <=> op[p] = "none"
        /\ pc[p] = "done" <=> result[p].kind # "None"
        /\ result[p].kind = "Panic" => (log[p] = <<>> /\ output[p] = NoOutput)
        /\ output[p].status = 1 => (pc[p] = "done" /\ result[p] = ExitError(output[p]))
        /\ (op[p] \in {"split", "merge"}) => Invocations(p) <= 1
        /\ (op[p] = "split" /\ result[p].kind # "Panic") => SplitLifecycle(p)
        /\ op[p] = "merge" => MergeLifecycle(p)
        /\ (op[p] = "region" /\ result[p].kind # "Panic") => ExtractLifecycle(p)

\* a call that has returned stays returned: its result, its captured output
\* and its side effects no longer change
C15_TerminalStep ==
    \A p \in Procs :
        pc[p] = "done" =>
            /\ pc'[p] = "done"
            /\ result'[p] = result[p]
            /\ output'[p] = output[p]
            /\ log'[p] = log[p]

\* C15: each call goes from idle through at most one invocation of the tool
\* (one per extraction in split_at_region) to a returned Ok or Err: a failed
\* run ends the call with that run's error and is never followed by another
\* invocation; merge_chunks writes the manifest before it invokes the tool and
\* does not invoke it when the write fails; split_into_chunks scans only after
\* an exit with status 0, and once the run has exited the call does return; a
\* call that has returned never leaves that state.
C15_OneInvocationThenTerminal ==
    /\ []C15_Lifecycle
    /\ [][C15_TerminalStep]_vars
    /\ \A p \in Procs : (pc[p] = "split_scan") ~> Returned(p)

\* a split_into_chunks whose only run of the tool failed: the call returned that
\* run's error without a scan
C15_Witness ==
    \E p \in Procs :
        /\ op[p] = "split" /\ pc[p] = "done"
        /\ log[p] = <<"mkdir", "invoke">> /\ Invocations(p) = 1
        /\ output[p].status = 1 /\ result[p] = ExitError(output[p])

\* a merge_chunks that could not write the manifest and never ran the tool
C15_WitnessNoManifest ==
    \E p \in Procs :
        /\ op[p] = "merge" /\ pc[p] = "done" /\ log[p] = <<>>
        /\ result[p] = Err(OsError)

\* a split_into_chunks that scanned after an exit with status 0 and returned
C15_WitnessScan ==
    \E p \in Procs :
        /\ op[p] = "split" /\ Returned(p)
        /\ log[p] = <<"mkdir", "invoke", "scan">> /\ output[p].status = 0

====
